---- MODULE Spec2Model ----
(***************************************************************************)
(* EntityCollisionSystem (libraries/entities/src/EntityCollisionSystem.cpp) *)
(* as a state machine: the tick driver updateCollisions(), the entity-pair  *)
(* scan updateCollisionWithEntities(), the avatar scan                      *)
(* updateCollisionWithAvatars() and the response applyHardCollision().      *)
(*                                                                         *)
(* Numbers.  A float is modelled by the exact dyadic rational               *)
(* (n / d) * 2^e, kept in the normal form n odd, d odd and positive,        *)
(* gcd(n, d) = 1 (zero is 0/1 * 2^0), so that equal values are equal        *)
(* records.  Scaling by TREE_SCALE is a multiplication or a division by     *)
(* the number 16384, not a relabelling.  A glm::vec3 is a pair <<x, y>> of  *)
(* such numbers (two axes are enough for a normal and a tangent).           *)
(***************************************************************************)
EXTENDS Integers, Sequences, FiniteSets, TLC

----------------------------------------------------------------------------
(* Exact arithmetic *)

Abs(i) == IF i < 0 THEN -i ELSE i

Min(i, j) == IF i < j THEN i ELSE j

RECURSIVE GCD(_, _)
GCD(a, b) == IF b = 0 THEN a ELSE GCD(b, a % b)

\* how often 2 divides the positive integer a
RECURSIVE TwoAdic(_)
TwoAdic(a) == IF a % 2 = 1 THEN 0 ELSE 1 + TwoAdic(a \div 2)

Zero == [n |-> 0, d |-> 1, e |-> 0]

\* the number (n / d) * 2^e in normal form; d > 0
Num(n, d, e) ==
    IF n = 0 THEN Zero
    ELSE LET g  == GCD(Abs(n), d)
             n1 == n \div g
             d1 == d \div g
             a  == TwoAdic(Abs(n1))
             b  == TwoAdic(d1)
         IN  [n |-> n1 \div (2^a), d |-> d1 \div (2^b), e |-> e + a - b]

Whole(i) == Num(i, 1, 0)

Frac(i, j) == Num(i, j, 0)

Neg(s) == [s EXCEPT !.n = -s.n]

Add(s, t) ==
    IF s.n = 0 THEN t
    ELSE IF t.n = 0 THEN s
    ELSE LET e == Min(s.e, t.e)
         IN  Num(s.n * (2^(s.e - e)) * t.d + t.n * (2^(t.e - e)) * s.d, s.d * t.d, e)

Sub(s, t) == Add(s, Neg(t))

Mul(s, t) == Num(s.n * t.n, s.d * t.d, s.e + t.e)

\* s / t for t # 0
Div(s, t) ==
    IF t.n > 0 THEN Num(s.n * t.d, s.d * t.n, s.e - t.e)
    ELSE Num(-(s.n * t.d), s.d * (-t.n), s.e - t.e)

IsPos(s) == s.n > 0

IsNeg(s) == s.n < 0

\* a/b < c/d for positive integers, by continued fractions (no products)
RECURSIVE FracLess(_, _, _, _)
FracLess(a, b, c, d) ==
    LET qa == a \div b
        qc == c \div d
        ra == a % b
        rc == c % d
    IN  IF qa # qc THEN qa < qc
        ELSE IF rc = 0 THEN FALSE
        ELSE IF ra = 0 THEN TRUE
        ELSE FracLess(d, rc, b, ra)

Big == 2^29

\* (a/b) * 2^k < c/d for positive integers a, b, c, d
RECURSIVE ShiftLess(_, _, _, _, _)
ShiftLess(a, b, c, d, k) ==
    IF k = 0 THEN FracLess(a, b, c, d)
    ELSE IF k > 0
         THEN IF a < Big THEN ShiftLess(2 * a, b, c, d, k - 1)
              ELSE ShiftLess(a, b, c, 2 * d, k - 1)
         ELSE IF b < Big THEN ShiftLess(a, 2 * b, c, d, k + 1)
              ELSE ShiftLess(a, b, 2 * c, d, k + 1)

\* s < t
Less(s, t) ==
    IF t.n > 0 /\ s.n <= 0 THEN TRUE
    ELSE IF t.n <= 0 /\ s.n >= 0 THEN FALSE
    ELSE IF t.n = 0 THEN TRUE
    ELSE IF s.n > 0 THEN ShiftLess(s.n, s.d, t.n, t.d, s.e - t.e)
    ELSE ShiftLess(-t.n, t.d, -s.n, s.d, t.e - s.e)

----------------------------------------------------------------------------
(* glm::vec3 *)

Vec(x, y) == <<Whole(x), Whole(y)>>

VZero == <<Zero, Zero>>

VAdd(u, v) == <<Add(u[1], v[1]), Add(u[2], v[2])>>

VSub(u, v) == <<Sub(u[1], v[1]), Sub(u[2], v[2])>>

\* s * v
VScale(s, v) == <<Mul(s, v[1]), Mul(s, v[2])>>

\* v / s
VDiv(v, s) == <<Div(v[1], s), Div(v[2], s)>>

\* glm::dot
Dot(u, v) == Add(Mul(u[1], v[1]), Mul(u[2], v[2]))

Magnitude(s) == [s EXCEPT !.n = Abs(s.n)]

\* glm::length(v) < s for s >= 0: decided by one component where that is
\* enough, on the squares otherwise
LengthLess(v, s) ==
    IF ~Less(Magnitude(v[1]), s) \/ ~Less(Magnitude(v[2]), s) THEN FALSE
    ELSE Less(Dot(v, v), Mul(s, s))

\* glm::length(v) > s for s >= 0, likewise
LengthGreater(v, s) ==
    IF Less(s, Magnitude(v[1])) \/ Less(s, Magnitude(v[2])) THEN TRUE
    ELSE Less(Mul(s, s), Dot(v, v))

\* glm::dot(v, glm::normalize(p)) * glm::normalize(p) for p # 0:
\* the component of v along p
Along(v, p) == VScale(Div(Dot(v, p), Dot(p, p)), p)

----------------------------------------------------------------------------
(* Constants of EntityCollisionSystem.cpp *)

\* the world-scale constant: metres per tree unit
TREE_SCALE == 16384

TreeScale == Whole(TREE_SCALE)

\* capacity of the member list _collisions, used by the avatar scan
MAX_COLLISIONS_PER_Entity == 16

\* capacity of the local list of the entity-pair scan
MAX_COLLISIONS_PER_ENTITY == 32

ELASTICITY == Frac(9, 10)

DAMPING == Frac(1, 10)

HALTING_ENTITY_PERIOD == Frac(167, 10000)

HALTING_ENTITY_SPEED == Div(Mul(Frac(98, 10), HALTING_ENTITY_PERIOD), TreeScale)

EPSILON == Zero

\* a NULL EntityItem*
NULL == 0

\* glm::clamp(s, lo, hi)
Clamp(s, lo, hi) == IF Less(s, lo) THEN lo ELSE IF Less(hi, s) THEN hi ELSE s

----------------------------------------------------------------------------
(* State *)

VARIABLES
    entities,        \* the EntityItems of the tree: id -> fields (tree units)
    movingEntities,  \* SimpleEntitySimulation::_movingEntities
    avatarHash,      \* AvatarHashMap: avatar -> position, bounding radius (metres)
    scene,           \* the contacts the tree and the avatars can report
    lock,            \* the tree's read-write lock: "free", "collisions", "other"
    pc,              \* where updateCollisions() stands
    ticks,           \* calls of updateCollisions() so far
    copy,            \* foreach (..., _movingEntities): the copy it iterates
    pending,         \* the items of the copy not yet visited
    entity,          \* the argument of checkEntity(), NULL outside it
    collisions,      \* the local CollisionList of updateCollisionWithEntities
    i,               \* its loop index
    _collisions,     \* the member CollisionList
    avatars,         \* foreach (..., getAvatarHash()): avatars not yet visited
    numCollisions,   \* updateCollisionWithAvatars: numCollisions
    edits,           \* messages queued on the packet sender in this tick
    emitted,         \* entityCollisionWithEntity signals emitted in this tick
    checked,         \* entities passed to checkEntity() in this tick
    last             \* what the latest step did (observation only)

vars == <<entities, movingEntities, avatarHash, scene, lock, pc, ticks, copy,
          pending, entity, collisions, i, _collisions, avatars, numCollisions, edits,
          emitted, checked, last>>

\* what the steps below read and write of the world outside the call stack
World == [entities |-> entities, movingEntities |-> movingEntities,
          edits |-> edits, emitted |-> emitted]

----------------------------------------------------------------------------
(* Collaborators *)

\* EntityItemProperties with position and velocity set (metres)
Properties(position, velocity) == [position |-> position, velocity |-> velocity]

\* whether the simulation keeps the entity in _movingEntities
HasVelocity(item) == item.velocity # VZero

\* EntityTree::updateEntity(entity, properties): the item takes the properties,
\* converted to tree units, and is sorted again in the simulation
UpdateEntity(w, id, properties) ==
    LET item == [w.entities[id] EXCEPT
                    !.position = VDiv(properties.position, TreeScale),
                    !.velocity = VDiv(properties.velocity, TreeScale)]
    IN  [w EXCEPT !.entities[id] = item,
                  !.movingEntities = IF HasVelocity(item) THEN @ \cup {id}
                                     ELSE @ \ {id}]

\* EntityEditPacketSender::queueEditEntityMessage(PacketTypeEntityAddOrEdit, ...)
QueueEditEntityMessage(w, id, properties) ==
    [w EXCEPT !.edits = Append(@, [id |-> id, position |-> properties.position,
                                   velocity |-> properties.velocity])]

\* the sequences over S of length at most n
SeqsUpTo(S, n) == UNION { [1..k -> S] : k \in 0..n }

\* CollisionList(capacity) filled from the overlaps found: getNewCollision()
\* gives no record once the list is full
CollisionList(found, capacity) == SubSeq(found, 1, Min(Len(found), capacity))

\* mutant: the local list is given the capacity of the member list
PairScanList_MemberCapacity(found) == CollisionList(found, MAX_COLLISIONS_PER_Entity)

\* CollisionList collisions(MAX_COLLISIONS_PER_ENTITY) after
\* findShapeCollisions(..., collisions, ...) found the overlaps
PairScanList(found) == CollisionList(found, MAX_COLLISIONS_PER_ENTITY)

\* EntityTree::findShapeCollisions(shape of A, collisions, Octree::NoLock, ...):
\* the overlaps it can find for A, in the order it offers them to the list
ShapeOverlaps(A) == SeqsUpTo({ c \in scene.shapes : c._extraData # A }, scene.most)

\* the overlaps an avatar can find in findSphereCollisions()
SphereOverlaps == SeqsUpTo(scene.spheres, scene.most)

\* AvatarData::findSphereCollisions(center, radius, list): the list afterwards,
\* for the overlaps the avatar found
FindSphereCollisions(list, found) ==
    list \o CollisionList(found, MAX_COLLISIONS_PER_Entity - Len(list))

----------------------------------------------------------------------------
(* updateCollisionWithEntities: the body of the contact loop *)

\* emitGlobalEntityCollisionWithEntity(entityA, entityB, collision)
EmitGlobalEntityCollisionWithEntity(w, A, B, collision) ==
    [w EXCEPT !.emitted = Append(@, [idA |-> A, idB |-> B,
                                     penetration |-> collision.penetration,
                                     contactPoint |-> collision.contactPoint])]

\* mutant: >= for >
FullyEnclosedCollision_OrEqual(w, A, penetrationInTreeUnits) ==
    ~LengthLess(penetrationInTreeUnits, w.entities[A].largestDimension)

\* bool fullyEnclosedCollision
FullyEnclosedCollision(w, A, penetrationInTreeUnits) ==
    LengthGreater(penetrationInTreeUnits, w.entities[A].largestDimension)

\* mutant: >= 0.0f for > 0.0f
MovingTowardEachOther_OrZero(relativeVelocity, penetrationInTreeUnits) ==
    ~IsNeg(Dot(relativeVelocity, penetrationInTreeUnits))

\* bool movingTowardEachOther
MovingTowardEachOther(relativeVelocity, penetrationInTreeUnits) ==
    IsPos(Dot(relativeVelocity, penetrationInTreeUnits))

\* bool doCollisions, for a contact of A with a known entity B
DoCollisions(w, A, B, penetration) ==
    LET penetrationInTreeUnits == VDiv(penetration, TreeScale)
        relativeVelocity == VSub(w.entities[A].velocity, w.entities[B].velocity)
        wantToMoveA == w.entities[A].collisionsWillMove
        wantToMoveB == w.entities[B].collisionsWillMove
    IN  /\ ~FullyEnclosedCollision(w, A, penetrationInTreeUnits)
        /\ MovingTowardEachOther(relativeVelocity, penetrationInTreeUnits)
        /\ (wantToMoveA \/ wantToMoveB)

\* mutant: the fix-up for a side that does not move is left out
MassRatioA_NoFixUp(massA, massB, wantToMoveA, wantToMoveB) ==
    Div(Mul(Whole(2), massB), Add(massA, massB))

\* float massRatioA, after the fix-up for a side that does not move
MassRatioA(massA, massB, wantToMoveA, wantToMoveB) ==
    IF ~wantToMoveA /\ wantToMoveB THEN Zero
    ELSE IF wantToMoveA /\ ~wantToMoveB THEN Whole(2)
    ELSE Div(Mul(Whole(2), massB), Add(massA, massB))

\* mutant: massRatioB is computed from massB, like massRatioA
MassRatioB_FromMassB(massA, massB, wantToMoveA, wantToMoveB) ==
    IF ~wantToMoveA /\ wantToMoveB THEN Whole(2)
    ELSE IF wantToMoveA /\ ~wantToMoveB THEN Zero
    ELSE Div(Mul(Whole(2), massB), Add(massA, massB))

\* float massRatioB, after the fix-up
MassRatioB(massA, massB, wantToMoveA, wantToMoveB) ==
    IF ~wantToMoveA /\ wantToMoveB THEN Whole(2)
    ELSE IF wantToMoveA /\ ~wantToMoveB THEN Zero
    ELSE Div(Mul(Whole(2), massA), Add(massA, massB))

\* mutant: A gives way by the whole penetration
MoveA_WholePenetration(w, A, axialVelocity, massRatioA, penetrationInTreeUnits) ==
    LET newVelocityA == VSub(w.entities[A].velocity, VScale(massRatioA, axialVelocity))
        newPositionA == VSub(w.entities[A].position, penetrationInTreeUnits)
        propertiesA  == Properties(VScale(TreeScale, newPositionA),
                                   VScale(TreeScale, newVelocityA))
    IN  QueueEditEntityMessage(UpdateEntity(w, A, propertiesA), A, propertiesA)

\* if (wantToMoveA) { ... updateEntity(entityA, propertiesA); queue... }
MoveA(w, A, axialVelocity, massRatioA, penetrationInTreeUnits) ==
    LET newVelocityA == VSub(w.entities[A].velocity, VScale(massRatioA, axialVelocity))
        newPositionA == VSub(w.entities[A].position,
                             VScale(Frac(1, 2), penetrationInTreeUnits))
        propertiesA  == Properties(VScale(TreeScale, newPositionA),
                                   VScale(TreeScale, newVelocityA))
    IN  QueueEditEntityMessage(UpdateEntity(w, A, propertiesA), A, propertiesA)

\* if (wantToMoveB) { ... updateEntity(entityB, propertiesB); queue... }
MoveB(w, B, axialVelocity, massRatioB, penetrationInTreeUnits) ==
    LET newVelocityB == VAdd(w.entities[B].velocity, VScale(massRatioB, axialVelocity))
        newPositionB == VAdd(w.entities[B].position,
                             VScale(Frac(1, 2), penetrationInTreeUnits))
        propertiesB  == Properties(VScale(TreeScale, newPositionB),
                                   VScale(TreeScale, newVelocityB))
    IN  QueueEditEntityMessage(UpdateEntity(w, B, propertiesB), B, propertiesB)

\* mutant: the notification is made before the two sides are updated
Collide_EmitFirst(w, A, B, penetration) ==
    LET penetrationInTreeUnits == VDiv(penetration, TreeScale)
        relativeVelocity == VSub(w.entities[A].velocity, w.entities[B].velocity)
        wantToMoveA   == w.entities[A].collisionsWillMove
        wantToMoveB   == w.entities[B].collisionsWillMove
        axialVelocity == Along(relativeVelocity, penetration)
        massA         == w.entities[A].mass
        massB         == w.entities[B].mass
        massRatioA    == MassRatioA(massA, massB, wantToMoveA, wantToMoveB)
        massRatioB    == MassRatioB(massA, massB, wantToMoveA, wantToMoveB)
        collision == [penetration  |-> penetration,
                      contactPoint |->
                          VScale(Mul(Frac(1, 2), TreeScale),
                                 VAdd(w.entities[A].position, w.entities[B].position))]
        wE == EmitGlobalEntityCollisionWithEntity(w, A, B, collision)
        wA == IF wantToMoveA
              THEN MoveA(wE, A, axialVelocity, massRatioA, penetrationInTreeUnits)
              ELSE wE
    IN  IF wantToMoveB
        THEN MoveB(wA, B, axialVelocity, massRatioB, penetrationInTreeUnits)
        ELSE wA

\* the block under if (doCollisions)
Collide(w, A, B, penetration) ==
    LET penetrationInTreeUnits == VDiv(penetration, TreeScale)
        relativeVelocity == VSub(w.entities[A].velocity, w.entities[B].velocity)
        wantToMoveA   == w.entities[A].collisionsWillMove
        wantToMoveB   == w.entities[B].collisionsWillMove
        axialVelocity == Along(relativeVelocity, penetration)
        massA         == w.entities[A].mass
        massB         == w.entities[B].mass
        massRatioA    == MassRatioA(massA, massB, wantToMoveA, wantToMoveB)
        massRatioB    == MassRatioB(massA, massB, wantToMoveA, wantToMoveB)
        wA == IF wantToMoveA
              THEN MoveA(w, A, axialVelocity, massRatioA, penetrationInTreeUnits)
              ELSE w
        wB == IF wantToMoveB
              THEN MoveB(wA, B, axialVelocity, massRatioB, penetrationInTreeUnits)
              ELSE wA
        collision == [penetration  |-> penetration,
                      contactPoint |->
                          VScale(Mul(Frac(1, 2), TreeScale),
                                 VAdd(wB.entities[A].position, wB.entities[B].position))]
    IN  EmitGlobalEntityCollisionWithEntity(wB, A, B, collision)

\* one pass of the loop over collisions, for collisions[i]
PairContact(w, A, collision) ==
    LET penetration == collision._penetration
        entityB     == collision._extraData
    IN  IF entityB = NULL THEN w
        ELSE IF ~w.entities[entityB].known THEN w
        ELSE IF DoCollisions(w, A, entityB, penetration)
             THEN Collide(w, A, entityB, penetration)
             ELSE w

\* the early returns of updateCollisionWithEntities
PairScanBails(w, A) ==
    w.entities[A].ignoreForCollisions \/ ~w.entities[A].known

----------------------------------------------------------------------------
(* applyHardCollision and the avatar scan *)

\* mutant: no static friction, every approach is reflected
HardCollisionResult_NoHalting(item, collisionInfo) ==
    LET position == item.position
        velocity == item.velocity
        relativeVelocity == VSub(collisionInfo._addedVelocity, velocity)
        velocityDotPenetration == Dot(relativeVelocity, collisionInfo._penetration)
    IN  IF Less(velocityDotPenetration, EPSILON)
        THEN LET normal == Along(relativeVelocity, collisionInfo._penetration)
                 reflection == VScale(Add(Whole(1), collisionInfo._elasticity), normal)
                 friction   == VScale(Clamp(collisionInfo._damping, Zero, Whole(1)),
                                      VSub(relativeVelocity, normal))
             IN  [position |-> VSub(position, collisionInfo._penetration),
                  velocity |-> VAdd(VAdd(velocity, reflection), friction)]
        ELSE [position |-> position, velocity |-> velocity]

\* mutant: the reflection is scaled by the elasticity alone, not by 1 + it
HardCollisionResult_NoRebound(item, collisionInfo) ==
    LET position == item.position
        velocity == item.velocity
        relativeVelocity == VSub(collisionInfo._addedVelocity, velocity)
        velocityDotPenetration == Dot(relativeVelocity, collisionInfo._penetration)
    IN  IF Less(velocityDotPenetration, EPSILON)
        THEN LET moved == VSub(position, collisionInfo._penetration)
             IN  IF LengthLess(relativeVelocity, HALTING_ENTITY_SPEED)
                 THEN [position |-> moved, velocity |-> collisionInfo._addedVelocity]
                 ELSE LET normal == Along(relativeVelocity, collisionInfo._penetration)
                          reflection == VScale(collisionInfo._elasticity, normal)
                          friction   == VScale(Clamp(collisionInfo._damping, Zero, Whole(1)),
                                               VSub(relativeVelocity, normal))
                      IN  [position |-> moved,
                           velocity |-> VAdd(VAdd(velocity, reflection), friction)]
        ELSE [position |-> position, velocity |-> velocity]

\* mutant: <= EPSILON for < EPSILON
HardCollisionResult_OrTangential(item, collisionInfo) ==
    LET position == item.position
        velocity == item.velocity
        relativeVelocity == VSub(collisionInfo._addedVelocity, velocity)
        velocityDotPenetration == Dot(relativeVelocity, collisionInfo._penetration)
    IN  IF ~Less(EPSILON, velocityDotPenetration)
        THEN LET moved == VSub(position, collisionInfo._penetration)
             IN  IF LengthLess(relativeVelocity, HALTING_ENTITY_SPEED)
                 THEN [position |-> moved, velocity |-> collisionInfo._addedVelocity]
                 ELSE LET normal == Along(relativeVelocity, collisionInfo._penetration)
                          reflection == VScale(Add(Whole(1), collisionInfo._elasticity),
                                               normal)
                          friction   == VScale(Clamp(collisionInfo._damping, Zero, Whole(1)),
                                               VSub(relativeVelocity, normal))
                      IN  [position |-> moved,
                           velocity |-> VAdd(VAdd(velocity, reflection), friction)]
        ELSE [position |-> position, velocity |-> velocity]

\* the position and velocity applyHardCollision computes for a known entity
HardCollisionResult(item, collisionInfo) ==
    LET position == item.position
        velocity == item.velocity
        relativeVelocity == VSub(collisionInfo._addedVelocity, velocity)
        velocityDotPenetration == Dot(relativeVelocity, collisionInfo._penetration)
    IN  IF Less(velocityDotPenetration, EPSILON)
        THEN LET moved == VSub(position, collisionInfo._penetration)
             IN  IF LengthLess(relativeVelocity, HALTING_ENTITY_SPEED)
                 THEN [position |-> moved, velocity |-> collisionInfo._addedVelocity]
                 ELSE LET normal == Along(relativeVelocity, collisionInfo._penetration)
                          reflection == VScale(Add(Whole(1), collisionInfo._elasticity),
                                               normal)
                          friction   == VScale(Clamp(collisionInfo._damping, Zero, Whole(1)),
                                               VSub(relativeVelocity, normal))
                      IN  [position |-> moved,
                           velocity |-> VAdd(VAdd(velocity, reflection), friction)]
        ELSE [position |-> position, velocity |-> velocity]

\* mutant: the identifier is not looked at
ApplyHardCollision_AnyID(w, id, collisionInfo) ==
    LET r == HardCollisionResult(w.entities[id], collisionInfo)
        properties == Properties(VScale(TreeScale, r.position),
                                 VScale(TreeScale, r.velocity))
    IN  QueueEditEntityMessage(UpdateEntity(w, id, properties), id, properties)

\* applyHardCollision(entity, collisionInfo)
ApplyHardCollision(w, id, collisionInfo) ==
    IF ~w.entities[id].known THEN w
    ELSE LET r == HardCollisionResult(w.entities[id], collisionInfo)
             properties == Properties(VScale(TreeScale, r.position),
                                      VScale(TreeScale, r.velocity))
         IN  QueueEditEntityMessage(UpdateEntity(w, id, properties), id, properties)

\* mutant: only the ignore flag is tested
AvatarScanBails_IgnoreOnly(w, id) == w.entities[id].ignoreForCollisions

\* the early return of updateCollisionWithAvatars
AvatarScanBails(w, id) ==
    w.entities[id].ignoreForCollisions \/ ~w.entities[id].collisionsWillMove

\* the broad-phase test that skips an avatar
TooFar(w, id, avatar) ==
    LET center == VScale(TreeScale, w.entities[id].position)
        radius == Mul(w.entities[id].radius, TreeScale)
        totalRadius == Add(avatar.boundingRadius, radius)
        relativePosition == VSub(center, avatar.position)
    IN  LengthGreater(relativePosition, totalRadius)

\* the record _collisions[k] after the assignments at the head of the loop body
Annotated(collision) ==
    [collision EXCEPT !._damping = DAMPING,
                      !._elasticity = ELASTICITY,
                      !._addedVelocity = VDiv(@, TreeScale)]

\* the test that lets a contact through to applyHardCollision
Honored(w, id, collision) ==
    LET relativeVelocity == VSub(collision._addedVelocity, w.entities[id].velocity)
    IN  ~IsPos(Dot(relativeVelocity, collision._penetration))

----------------------------------------------------------------------------
(* Bounds of the model *)

\* calls of updateCollisions() in one behaviour
MaxTicks == 2

\* contacts one findShapeCollisions() reports
MaxContacts == 2

\* contacts one avatar reports
MaxSphereContacts == 1

\* overlaps a query finds beyond the larger capacity, in the crowded world
MaxBeyond == 2

\* calls of applyHardCollision() made on its own
MaxCalls == 2

----------------------------------------------------------------------------
(* The steps of updateCollisions() *)

NoContact == [_extraData |-> NULL]

\* the record of a step: the operation, the entity it served, the contact it
\* handled, a count (the overlaps a query found, the passes a loop made) and
\* the entities before it
Step(op, id, contact, count) ==
    [op |-> op, id |-> id, contact |-> contact, count |-> count, before |-> entities]

Put(w) ==
    /\ entities' = w.entities
    /\ movingEntities' = w.movingEntities
    /\ edits' = w.edits
    /\ emitted' = w.emitted

\* mutant: the result of tryLockForWrite() is ignored and the loop runs
TryLockFails_Unchecked ==
    /\ pc = "idle"
    /\ ticks < MaxTicks
    /\ lock # "free"
    /\ ticks' = ticks + 1
    /\ copy' = movingEntities
    /\ pending' = copy'
    /\ pc' = "foreach"
    /\ edits' = <<>>
    /\ emitted' = <<>>
    /\ checked' = <<>>
    /\ last' = Step("TryLockFails", NULL, NoContact, 0)
    /\ UNCHANGED <<entities, movingEntities, avatarHash, scene, lock, entity,
                   collisions, i, _collisions, avatars, numCollisions>>

\* tryLockForWrite() fails: the call returns at once
TryLockFails ==
    /\ pc = "idle"
    /\ ticks < MaxTicks
    /\ lock # "free"
    /\ ticks' = ticks + 1
    /\ last' = Step("TryLockFails", NULL, NoContact, 0)
    /\ UNCHANGED <<entities, movingEntities, avatarHash, scene, lock, pc, copy, pending,
                   entity, collisions, i, _collisions, avatars, numCollisions,
                   edits, emitted, checked>>

\* the container foreach iterates: Qt's foreach takes a copy of _movingEntities
ForeachContainer(container) == container

\* tryLockForWrite() succeeds and foreach takes its copy
TryLockSucceeds ==
    /\ pc = "idle"
    /\ ticks < MaxTicks
    /\ lock = "free"
    /\ lock' = "collisions"
    /\ ticks' = ticks + 1
    /\ copy' = ForeachContainer(movingEntities)
    /\ pending' = copy'
    /\ pc' = "foreach"
    /\ edits' = <<>>
    /\ emitted' = <<>>
    /\ checked' = <<>>
    /\ last' = Step("TryLockSucceeds", NULL, NoContact, 0)
    /\ UNCHANGED <<entities, movingEntities, avatarHash, scene, entity, collisions,
                   i, _collisions, avatars, numCollisions>>

\* the members of a sequence
Range(q) == { q[k] : k \in 1..Len(q) }

\* mutant: the loop walks _movingEntities itself, so an entity the body adds
\* is visited in the same pass
ForeachRest_Live(rest, container) == rest \cup (container \ (Range(checked) \cup {entity}))

\* what is left to visit after a loop body changed _movingEntities: the copy
\* is not affected
ForeachRest(rest, container) == rest

\* checkEntity(e) is called and updateCollisionWithEntities(e) runs up to its loop
CheckEntity(e) ==
    /\ pc = "foreach"
    /\ e \in pending
    /\ pending' = pending \ {e}
    /\ entity' = e
    /\ checked' = Append(checked, e)
    /\ i' = 0
    /\ pc' = "entities"
    /\ IF PairScanBails(World, e)
       THEN /\ collisions' = <<>>
            /\ last' = Step("CheckEntity", e, NoContact, 0)
       ELSE \E found \in ShapeOverlaps(e) :
              /\ collisions' = PairScanList(found)
              /\ last' = Step("CheckEntity", e, NoContact, Len(found))
    /\ UNCHANGED <<entities, movingEntities, avatarHash, scene, lock, ticks, copy,
                   _collisions, avatars, numCollisions, edits, emitted>>

\* mutant: a contact that is skipped ends the loop
EntityContact_BreakOnSkip ==
    /\ pc = "entities"
    /\ i < Len(collisions)
    /\ LET w == PairContact(World, entity, collisions[i + 1])
       IN  /\ Put(w)
           /\ pending' = ForeachRest(pending, w.movingEntities)
           /\ i' = IF w = World THEN Len(collisions) ELSE i + 1
    /\ last' = Step("EntityContact", entity, collisions[i + 1], 0)
    /\ UNCHANGED <<avatarHash, scene, lock, pc, ticks, copy, entity, collisions,
                   _collisions, avatars, numCollisions, checked>>

\* mutant: the pass works on the entities as they were before the step
\* before it, not as that step left them
EntityContact_StaleRead ==
    /\ pc = "entities"
    /\ i < Len(collisions)
    /\ LET w == PairContact([World EXCEPT !.entities = last.before], entity,
                            collisions[i + 1])
       IN  /\ Put(w)
           /\ pending' = ForeachRest(pending, w.movingEntities)
    /\ i' = i + 1
    /\ last' = Step("EntityContact", entity, collisions[i + 1], 0)
    /\ UNCHANGED <<avatarHash, scene, lock, pc, ticks, copy, entity, collisions,
                   _collisions, avatars, numCollisions, checked>>

\* one pass of for (i = 0; i < collisions.size(); i++)
EntityContact ==
    /\ pc = "entities"
    /\ i < Len(collisions)
    /\ LET w == PairContact(World, entity, collisions[i + 1])
       IN  /\ Put(w)
           /\ pending' = ForeachRest(pending, w.movingEntities)
    /\ i' = i + 1
    /\ last' = Step("EntityContact", entity, collisions[i + 1], 0)
    /\ UNCHANGED <<avatarHash, scene, lock, pc, ticks, copy, entity, collisions,
                   _collisions, avatars, numCollisions, checked>>

\* updateCollisionWithEntities returns; updateCollisionWithAvatars runs up to
\* its foreach, or returns early
BeginAvatars ==
    /\ pc = "entities"
    /\ i = Len(collisions)
    /\ collisions' = <<>>
    /\ i' = 0
    /\ IF AvatarScanBails(World, entity)
       THEN /\ pc' = "foreach"
            /\ entity' = NULL
            /\ UNCHANGED <<_collisions, avatars>>
       ELSE /\ pc' = "avatars"
            /\ _collisions' = <<>>
            /\ avatars' = DOMAIN avatarHash
            /\ UNCHANGED entity
    /\ last' = Step("BeginAvatars", entity, NoContact, i)
    /\ UNCHANGED <<entities, movingEntities, avatarHash, scene, lock, ticks, copy,
                   pending, numCollisions, edits, emitted, checked>>

\* one pass of foreach (avatarPointer, getAvatarHash()), up to the contact loop
VisitAvatar(a) ==
    /\ pc = "avatars"
    /\ a \in avatars
    /\ avatars' = avatars \ {a}
    /\ i' = 0
    /\ IF TooFar(World, entity, avatarHash[a])
       THEN /\ UNCHANGED <<_collisions, numCollisions, pc>>
            /\ last' = Step("TooFar", entity, NoContact, 0)
       ELSE \E found \in SphereOverlaps :
              /\ _collisions' = FindSphereCollisions(_collisions, found)
              /\ IF found # <<>>
                 THEN /\ numCollisions' = Len(_collisions')
                      /\ pc' = "contacts"
                 ELSE UNCHANGED <<numCollisions, pc>>
              /\ last' = Step("VisitAvatar", entity, NoContact, Len(found))
    /\ UNCHANGED <<entities, movingEntities, avatarHash, scene, lock, ticks, copy,
                   pending, entity, collisions, edits, emitted, checked>>

\* one pass of for (i = 0; i < numCollisions; ++i)
AvatarContact ==
    /\ pc = "contacts"
    /\ i < numCollisions
    /\ LET collision == Annotated(_collisions[i + 1])
           honored   == Honored(World, entity, collision)
           passed    == [collision EXCEPT !._penetration = VDiv(@, TreeScale)]
       IN  IF honored
           THEN /\ _collisions' = [_collisions EXCEPT ![i + 1] = passed]
                /\ LET w == ApplyHardCollision(World, entity, passed)
                   IN  /\ Put(w)
                       /\ pending' = ForeachRest(pending, w.movingEntities)
                /\ last' = Step("AvatarContact", entity, passed, 0)
           ELSE /\ _collisions' = [_collisions EXCEPT ![i + 1] = collision]
                /\ last' = Step("NotHonored", entity, collision, 0)
                /\ UNCHANGED <<entities, movingEntities, edits, emitted, pending>>
    /\ i' = i + 1
    /\ pc' = IF i + 1 < numCollisions THEN "contacts" ELSE "avatars"
    /\ UNCHANGED <<avatarHash, scene, lock, ticks, copy, entity, collisions, avatars,
                   numCollisions, checked>>

\* the avatar foreach ends: updateCollisionWithAvatars and checkEntity return
EndCheck ==
    /\ pc = "avatars"
    /\ avatars = {}
    /\ pc' = "foreach"
    /\ entity' = NULL
    /\ i' = 0
    /\ last' = Step("EndCheck", entity, NoContact, 0)
    /\ UNCHANGED <<entities, movingEntities, avatarHash, scene, lock, ticks, copy,
                   pending, collisions, _collisions, avatars, numCollisions,
                   edits, emitted, checked>>

\* mutant: the loop ends and the lock is kept
Unlock_Forgotten ==
    /\ pc = "foreach"
    /\ pending = {}
    /\ pc' = "idle"
    /\ last' = Step("Unlock", NULL, NoContact, 0)
    /\ UNCHANGED <<entities, movingEntities, avatarHash, scene, lock, ticks, copy,
                   pending, entity, collisions, i, _collisions, avatars,
                   numCollisions, edits, emitted, checked>>

\* the foreach over the moving entities ends: _entityTree->unlock()
Unlock ==
    /\ pc = "foreach"
    /\ pending = {}
    /\ lock' = "free"
    /\ pc' = "idle"
    /\ last' = Step("Unlock", NULL, NoContact, 0)
    /\ UNCHANGED <<entities, movingEntities, avatarHash, scene, ticks, copy, pending,
                   entity, collisions, i, _collisions, avatars, numCollisions,
                   edits, emitted, checked>>

\* another user of the tree takes its write lock
OtherLocks ==
    /\ lock = "free"
    /\ lock' = "other"
    /\ UNCHANGED <<entities, movingEntities, avatarHash, scene, pc, ticks, copy, pending,
                   entity, collisions, i, _collisions, avatars, numCollisions,
                   edits, emitted, checked, last>>

\* and releases it
OtherUnlocks ==
    /\ lock = "other"
    /\ lock' = "free"
    /\ UNCHANGED <<entities, movingEntities, avatarHash, scene, pc, ticks, copy, pending,
                   entity, collisions, i, _collisions, avatars, numCollisions,
                   edits, emitted, checked, last>>

----------------------------------------------------------------------------
(* Worlds *)

\* a vector given in metres, in tree units
InTreeUnits(v) == VDiv(v, TreeScale)

Profiles == [known : BOOLEAN, ignoreForCollisions : BOOLEAN,
             collisionsWillMove : BOOLEAN]

\* an EntityItem 2 m across
Item(position, velocity, profile, mass) ==
    [position |-> InTreeUnits(position), velocity |-> InTreeUnits(velocity),
     known |-> profile.known,
     ignoreForCollisions |-> profile.ignoreForCollisions,
     collisionsWillMove |-> profile.collisionsWillMove,
     mass |-> Whole(mass),
     largestDimension |-> Div(Whole(2), TreeScale),
     radius |-> Div(Whole(1), TreeScale)]

\* a CollisionInfo as a query leaves it
Contact(penetration, addedVelocity, extraData) ==
    [_penetration |-> penetration, _addedVelocity |-> addedVelocity,
     _damping |-> Zero, _elasticity |-> Whole(1), _extraData |-> extraData]

InitStack ==
    /\ lock = "free"
    /\ pc = "idle"
    /\ ticks = 0
    /\ copy = {}
    /\ pending = {}
    /\ entity = NULL
    /\ collisions = <<>>
    /\ i = 0
    /\ _collisions = <<>>
    /\ avatars = {}
    /\ numCollisions = 0
    /\ edits = <<>>
    /\ emitted = <<>>
    /\ checked = <<>>
    /\ last = Step("init", NULL, NoContact, 0)

\* two entities and no avatar
InitPair ==
    /\ \E pA, pB \in Profiles, mA, mB \in {1, 3},
          vA \in {Vec(1, 0), Vec(2, 1)}, vB \in {Vec(0, 0), Vec(2, 0)} :
          entities = (1 :> Item(Vec(0, 0), vA, pA, mA)) @@
                     (2 :> Item(Vec(1, 0), vB, pB, mB))
    /\ movingEntities = { e \in DOMAIN entities : HasVelocity(entities[e]) }
    /\ avatarHash = <<>>
    /\ scene = [shapes  |-> { Contact(p, VZero, b) :
                                p \in {Vec(2, 0), Vec(3, 0)},
                                b \in {1, 2, NULL} },
                spheres |-> {},
                most    |-> MaxContacts]
    /\ InitStack

NextPair ==
    \/ TryLockFails
    \/ TryLockSucceeds
    \/ \E e \in DOMAIN entities : CheckEntity(e)
    \/ EntityContact
    \/ BeginAvatars
    \/ EndCheck
    \/ Unlock
    \/ OtherLocks
    \/ OtherUnlocks

SpecPair == InitPair /\ [][NextPair]_vars

\* an avatar with a bounding radius of 1 m
Avatar(position) == [position |-> position, boundingRadius |-> Whole(1)]

Tenth == Frac(1, 10)

\* one entity, alone in the tree, and two avatars, each near it or far away
InitAvatar ==
    /\ \E p \in Profiles, v \in {Vec(1, 0), <<Tenth, Zero>>, <<Zero, Tenth>>} :
          entities = (1 :> Item(Vec(0, 0), v, p, 1))
    /\ movingEntities = {1}
    /\ \E p1 \in {Vec(1, 0), Vec(5, 0)}, p2 \in {Vec(0, 1), Vec(0, 5)} :
          avatarHash = (1 :> Avatar(p1)) @@ (2 :> Avatar(p2))
    /\ scene = [shapes  |-> {},
                spheres |-> { Contact(p, a, NULL) :
                                p \in {Vec(1, 0), Vec(1, 1)},
                                a \in {Vec(0, 0), Vec(2, 0)} },
                most    |-> MaxSphereContacts]
    /\ InitStack

NextAvatar ==
    \/ TryLockFails
    \/ TryLockSucceeds
    \/ \E e \in DOMAIN entities : CheckEntity(e)
    \/ BeginAvatars
    \/ \E a \in DOMAIN avatarHash : VisitAvatar(a)
    \/ AvatarContact
    \/ EndCheck
    \/ Unlock
    \/ OtherLocks
    \/ OtherUnlocks

SpecAvatar == InitAvatar /\ [][NextAvatar]_vars

\* two entities and two avatars near them
Init ==
    /\ \E pA, pB \in Profiles :
          entities = (1 :> Item(Vec(0, 0), Vec(1, 0), pA, 1)) @@
                     (2 :> Item(Vec(1, 0), Vec(0, 0), pB, 1))
    /\ movingEntities = {1}
    /\ avatarHash = (1 :> Avatar(Vec(1, 0))) @@ (2 :> Avatar(Vec(0, 1)))
    /\ scene = [shapes  |-> { Contact(Vec(2, 0), VZero, b) : b \in {1, 2, NULL} },
                spheres |-> { Contact(Vec(1, 0), VZero, NULL) },
                most    |-> MaxSphereContacts]
    /\ InitStack

Next ==
    \/ TryLockFails
    \/ TryLockSucceeds
    \/ \E e \in DOMAIN entities : CheckEntity(e)
    \/ EntityContact
    \/ BeginAvatars
    \/ \E a \in DOMAIN avatarHash : VisitAvatar(a)
    \/ AvatarContact
    \/ EndCheck
    \/ Unlock
    \/ OtherLocks
    \/ OtherUnlocks

Spec == Init /\ [][Next]_vars

\* one entity in a crowd: more overlaps than a list holds, none of them
\* leading to a response (no counterpart reference; an avatar moving away)
InitCrowd ==
    /\ entities = (1 :> Item(Vec(0, 0), Vec(1, 0),
                             [known |-> TRUE, ignoreForCollisions |-> FALSE,
                              collisionsWillMove |-> TRUE], 1))
    /\ movingEntities = {1}
    /\ avatarHash = (1 :> Avatar(Vec(1, 0)))
    /\ scene = [shapes  |-> { Contact(Vec(2, 0), VZero, NULL) },
                spheres |-> { Contact(Vec(1, 0), Vec(2, 0), NULL) },
                most    |-> MAX_COLLISIONS_PER_ENTITY + MaxBeyond]
    /\ InitStack

SpecCrowd == InitCrowd /\ [][Next]_vars

\* applyHardCollision(entity, collisionInfo) called on its own, with a contact
\* in tree units; ticks counts the calls
CallApplyHardCollision(e, collisionInfo) ==
    /\ pc = "idle"
    /\ ticks < MaxCalls
    /\ ticks' = ticks + 1
    /\ Put(ApplyHardCollision(World, e, collisionInfo))
    /\ last' = Step("applyHardCollision", e, collisionInfo, 0)
    /\ UNCHANGED <<avatarHash, scene, lock, pc, copy, pending, entity, collisions,
                   i, _collisions, avatars, numCollisions, checked>>

\* a contact in tree units with the elasticity and damping its caller set
ContactWith(penetration, addedVelocity, elasticity, damping) ==
    [Contact(InTreeUnits(penetration), InTreeUnits(addedVelocity), NULL)
        EXCEPT !._elasticity = elasticity, !._damping = damping]

\* one entity, known or not, fast or slow, and the contacts to call
\* applyHardCollision with
InitHard ==
    /\ \E known \in BOOLEAN,
          v \in {Vec(1, 0), Vec(2, 1), <<Tenth, Zero>>, <<Zero, Tenth>>} :
          entities = (1 :> Item(Vec(0, 0), v,
                                [known |-> known, ignoreForCollisions |-> FALSE,
                                 collisionsWillMove |-> TRUE], 1))
    /\ movingEntities = {1}
    /\ avatarHash = <<>>
    /\ scene = [shapes  |-> {},
                spheres |-> { ContactWith(p, a, e, d) :
                                p \in {Vec(1, 0), Vec(1, 1)},
                                a \in {Vec(0, 0), Vec(2, 0)},
                                e \in {Whole(1), ELASTICITY},
                                d \in {Zero, DAMPING} },
                most    |-> 1]
    /\ InitStack

NextHard == \E e \in DOMAIN entities, c \in scene.spheres : CallApplyHardCollision(e, c)

SpecHard == InitHard /\ [][NextHard]_vars

\* two known entities facing each other, with contacts pointing either way,
\* so that one scan can resolve the same pair more than once
InitSeq ==
    /\ \E wA, wB \in BOOLEAN, mA \in {1, 3},
          vA \in {Vec(1, 0), Vec(2, 1)}, vB \in {Vec(0, 0), Vec(-1, 0)} :
          entities = (1 :> Item(Vec(0, 0), vA,
                                [known |-> TRUE, ignoreForCollisions |-> FALSE,
                                 collisionsWillMove |-> wA], mA)) @@
                     (2 :> Item(Vec(1, 0), vB,
                                [known |-> TRUE, ignoreForCollisions |-> FALSE,
                                 collisionsWillMove |-> wB], 1))
    /\ movingEntities = { e \in DOMAIN entities : HasVelocity(entities[e]) }
    /\ avatarHash = <<>>
    /\ scene = [shapes  |-> { Contact(p, VZero, b) :
                                p \in {Vec(2, 0), Vec(-2, 0)}, b \in {1, 2} },
                spheres |-> {},
                most    |-> MaxContacts]
    /\ InitStack

SpecSeq == InitSeq /\ [][NextPair]_vars

----------------------------------------------------------------------------
(* Properties: the tick driver *)

\* C1: when updateCollisions() runs and tryLockForWrite() fails, the call
\* returns with nothing done: no entity is checked, no position or velocity
\* changes, nothing is queued or emitted, the lock is left to its holder
\* (no unlock()), and the call does not go on to try again.
C1_FailedLockSkipsTick ==
    [][ (pc = "idle" /\ lock # "free" /\ ticks' = ticks + 1)
        => /\ pc' = "idle"
           /\ lock' = lock
           /\ UNCHANGED <<entities, movingEntities, edits, emitted, checked,
                          copy, pending, entity, collisions, _collisions>> ]_vars

\* C1 witness: a tick was skipped after an earlier tick had moved an entity
C1_Witness ==
    /\ last.op = "TryLockFails"
    /\ lock = "other"
    /\ ticks = 2
    /\ edits # <<>>

\* C2: in a tick that holds the lock, the entities checked are those of the
\* moving set as it was when the loop began, each once: none is checked
\* twice, an entity that joins the moving set during the tick is not checked
\* in it, and when the loop ends every entity of the copy has been checked.
C2_EachMovingEntityOnce ==
    /\ \A j, k \in 1..Len(checked) : checked[j] = checked[k] => j = k
    /\ pc # "idle" => /\ Range(checked) \subseteq copy
                      /\ pending = copy \ Range(checked)
    /\ last.op = "Unlock" => Range(checked) = copy

\* C2 witness: a tick ended in which an entity was woken into the moving set
\* and was not checked, and the entity that woke it was
C2_Witness ==
    /\ last.op = "Unlock"
    /\ checked # <<>>
    /\ \E e \in movingEntities : e \notin copy

\* C3: the collision system holds the write lock from tryLockForWrite() to
\* unlock() and only then touches the tree: whatever it queries, updates,
\* queues or emits happens under the lock, it takes the lock only at the head
\* of a tick and never while it has it, it never waits for the lock (a call
\* that finds it taken has returned in the same step), and the lock is
\* released when updateCollisions() has returned.
C3_WorkOnlyUnderLock ==
    [][ /\ (pc' # "idle" => lock' = "collisions")
        /\ (pc' = "idle" => lock' # "collisions")
        /\ (<<entities, movingEntities, edits, emitted, checked>>'
               # <<entities, movingEntities, edits, emitted, checked>>
            => lock' = "collisions")
        /\ (lock' = "collisions" /\ lock # "collisions"
            => pc = "idle" /\ lock = "free" /\ ticks' = ticks + 1)
        /\ (pc = "idle" /\ ticks' # ticks /\ lock = "other"
            => pc' = "idle" /\ lock' = "other") ]_vars

\* C3 witness: in the second call of updateCollisions() the lock is held and
\* an update and a notification have just been made under it
C3_Witness ==
    /\ ticks = 2
    /\ lock = "collisions"
    /\ last.op = "EntityContact"
    /\ edits # <<>>
    /\ emitted # <<>>
    /\ \E e \in DOMAIN entities : entities[e] # last.before[e]

----------------------------------------------------------------------------
(* Properties: the entity-pair scan *)

\* a step that is one pass of the contact loop of updateCollisionWithEntities
IsEntityContact == pc = "entities" /\ i < Len(collisions) /\ i' = i + 1

\* the pass produced an update, an edit message or a notification
Resolves ==
    \/ entities' # entities
    \/ edits' # edits
    \/ emitted' # emitted

\* the relative velocity (A minus B) of the pair the pass is about to handle
PairVelocity(B) == VSub(entities[entity].velocity, entities[B].velocity)

\* C4: a pass of the contact loop resolves its pair only if neither A nor B
\* ignores collisions, both identifiers are known, the relative velocity
\* (A minus B) has a strictly positive projection onto the penetration
\* vector, and at least one of A and B moves on collision.
C4_ResolvedOnlyIfAllHold ==
    [][ IsEntityContact /\ Resolves
        => LET B == collisions[i + 1]._extraData
           IN  /\ B # NULL
               /\ ~entities[entity].ignoreForCollisions
               /\ ~entities[B].ignoreForCollisions
               /\ entities[entity].known
               /\ entities[B].known
               /\ IsPos(Dot(PairVelocity(B), collisions[i + 1]._penetration))
               /\ (entities[entity].collisionsWillMove \/ entities[B].collisionsWillMove)
      ]_vars

\* C5: a pass whose pair has a relative velocity (A minus B) with a projection
\* onto the penetration vector that is negative or zero changes no position
\* or velocity, queues no edit and emits no notification.
C5_SeparatingPairUntouched ==
    [][ /\ IsEntityContact
        /\ collisions[i + 1]._extraData # NULL
        /\ ~IsPos(Dot(PairVelocity(collisions[i + 1]._extraData),
                      collisions[i + 1]._penetration))
        => UNCHANGED <<entities, movingEntities, edits, emitted>> ]_vars

\* the pair of the latest pass and what stood before it
LastB == last.contact._extraData

LastPairVelocity == VSub(last.before[last.id].velocity, last.before[LastB].velocity)

LastPenetrationInTreeUnits == VDiv(last.contact._penetration, TreeScale)

\* the latest pass handled a pair that meets every condition of the scan
\* other than the two tests on velocity and depth
LastPairEligible ==
    /\ last.op = "EntityContact"
    /\ LastB # NULL
    /\ entities[last.id].known
    /\ entities[LastB].known
    /\ ~entities[last.id].ignoreForCollisions
    /\ entities[last.id].collisionsWillMove
    /\ entities[LastB].collisionsWillMove

\* C5 witness: a pass over a pair that would have been resolved but for its
\* relative velocity, which is not zero and exactly at right angles to the
\* penetration
C5_Witness ==
    /\ LastPairEligible
    /\ LastPairVelocity # VZero
    /\ Dot(LastPairVelocity, last.contact._penetration) = Zero
    /\ ~Less(Mul(entities[last.id].largestDimension, entities[last.id].largestDimension),
             Dot(LastPenetrationInTreeUnits, LastPenetrationInTreeUnits))

\* the squared length of a penetration in tree units against the squared
\* largest dimension of A
DeeperThanA(penetration) ==
    Less(Mul(entities[entity].largestDimension, entities[entity].largestDimension),
         Dot(VDiv(penetration, TreeScale), VDiv(penetration, TreeScale)))

AsDeepAsA(penetration) ==
    Dot(VDiv(penetration, TreeScale), VDiv(penetration, TreeScale))
        = Mul(entities[entity].largestDimension, entities[entity].largestDimension)

\* C6: a pass whose penetration, in tree units, is longer than A's largest
\* dimension resolves nothing, whatever the velocities, masses and flags;
\* a penetration exactly as long as the largest dimension is not held back:
\* the pair is resolved when it is closing, B is known and a side moves.
C6_EnclosedNeverResolved ==
    [][ IsEntityContact /\ collisions[i + 1]._extraData # NULL
        => LET B == collisions[i + 1]._extraData
               p == collisions[i + 1]._penetration
           IN  /\ DeeperThanA(p)
                  => UNCHANGED <<entities, movingEntities, edits, emitted>>
               /\ ( /\ AsDeepAsA(p)
                    /\ entities[B].known
                    /\ IsPos(Dot(PairVelocity(B), p))
                    /\ (entities[entity].collisionsWillMove
                           \/ entities[B].collisionsWillMove) )
                  => Len(emitted') = Len(emitted) + 1
      ]_vars

\* C6 witness: a pair whose penetration is exactly as long as A's largest
\* dimension has just been resolved
C6_Witness ==
    /\ LastPairEligible
    /\ Dot(LastPenetrationInTreeUnits, LastPenetrationInTreeUnits)
          = Mul(entities[last.id].largestDimension, entities[last.id].largestDimension)
    /\ emitted # <<>>
    /\ entities # last.before

\* C7: when a pair is resolved and exactly one side moves on collision, the
\* other side keeps its position and velocity and gets no edit message, and
\* the moving side's velocity changes by twice the component of the relative
\* velocity along the penetration (taken from A, given to B), whatever the
\* two masses are.
C7_ImmovableSideUntouched ==
    [][ /\ IsEntityContact
        /\ Len(emitted') = Len(emitted) + 1
        /\ entities[entity].collisionsWillMove
              # entities[collisions[i + 1]._extraData].collisionsWillMove
        => LET B == collisions[i + 1]._extraData
               twice == VScale(Whole(2),
                               Along(PairVelocity(B), collisions[i + 1]._penetration))
           IN  /\ Len(edits') = Len(edits) + 1
               /\ IF entities[entity].collisionsWillMove
                  THEN /\ entities'[B] = entities[B]
                       /\ edits'[Len(edits')].id = entity
                       /\ entities'[entity].velocity
                             = VSub(entities[entity].velocity, twice)
                  ELSE /\ entities'[entity] = entities[entity]
                       /\ edits'[Len(edits')].id = B
                       /\ entities'[B].velocity = VAdd(entities[B].velocity, twice)
      ]_vars

\* C7 witness: a pair of unequal masses was resolved with A moving and B not
C7_Witness ==
    /\ last.op = "EntityContact"
    /\ LastB # NULL
    /\ entities # last.before
    /\ entities[last.id].collisionsWillMove
    /\ ~entities[LastB].collisionsWillMove
    /\ entities[last.id].mass # entities[LastB].mass

\* C8: when a pair of equal masses is resolved and both sides move, A loses
\* and B gains exactly the component of the relative velocity along the
\* penetration (both ratios are 1), A moves by minus half the penetration and
\* B by plus half of it: equal and opposite, the whole penetration together.
C8_EqualMassSplit ==
    [][ /\ IsEntityContact
        /\ Len(emitted') = Len(emitted) + 1
        /\ entities[entity].collisionsWillMove
        /\ entities[collisions[i + 1]._extraData].collisionsWillMove
        /\ entities[entity].mass = entities[collisions[i + 1]._extraData].mass
        => LET B == collisions[i + 1]._extraData
               axial == Along(PairVelocity(B), collisions[i + 1]._penetration)
               half  == VScale(Frac(1, 2),
                               VDiv(collisions[i + 1]._penetration, TreeScale))
           IN  /\ entities'[entity].velocity = VSub(entities[entity].velocity, axial)
               /\ entities'[B].velocity = VAdd(entities[B].velocity, axial)
               /\ entities'[entity].position = VSub(entities[entity].position, half)
               /\ entities'[B].position = VAdd(entities[B].position, half)
               /\ VSub(VSub(entities'[B].position, entities[B].position),
                       VSub(entities'[entity].position, entities[entity].position))
                     = VDiv(collisions[i + 1]._penetration, TreeScale)
      ]_vars

\* C8 witness: a pair of equal masses, both moving on collision, was resolved
C8_Witness ==
    /\ LastPairEligible
    /\ entities[last.id].mass = entities[LastB].mass
    /\ entities[last.id] # last.before[last.id]
    /\ entities[LastB] # last.before[LastB]

----------------------------------------------------------------------------
(* Properties: the avatar scan *)

\* a step that is one pass of the contact loop of updateCollisionWithAvatars
IsAvatarContact == pc = "contacts" /\ i < numCollisions /\ i' = i + 1

\* the added velocity of the contact of the pass, as the pass scales it
PassAddedVelocity == VDiv(_collisions[i + 1]._addedVelocity, TreeScale)

\* the relative velocity the pass and the response work with
PassVelocity == VSub(PassAddedVelocity, entities[entity].velocity)

\* the projection of it onto the penetration vector
PassProjection == Dot(PassVelocity, _collisions[i + 1]._penetration)

\* C9 as stated: for every contact the avatar scan honors (projection not
\* positive, zero included) with a relative speed below the halting speed,
\* the velocity of the (known) entity after the response is the contact's
\* added velocity.
C9_SnapForEveryHonoredContact ==
    [][ /\ IsAvatarContact
        /\ entities[entity].known
        /\ ~IsPos(PassProjection)
        /\ LengthLess(PassVelocity, HALTING_ENTITY_SPEED)
        => entities'[entity].velocity = PassAddedVelocity ]_vars

\* C9 amended: the snap is for the honored contacts with a strictly negative
\* projection; a contact whose relative velocity is exactly at right angles to
\* the penetration is honored too, but the response leaves the entity's
\* position and velocity as they were.
C9_SnapWhenApproaching ==
    [][ /\ IsAvatarContact
        /\ entities[entity].known
        /\ ~IsPos(PassProjection)
        /\ LengthLess(PassVelocity, HALTING_ENTITY_SPEED)
        => IF IsNeg(PassProjection)
           THEN entities'[entity].velocity = PassAddedVelocity
           ELSE /\ entities'[entity].velocity = entities[entity].velocity
                /\ entities'[entity].position = entities[entity].position
                /\ Len(edits') = Len(edits) + 1 ]_vars

\* C9 witness: a slow approaching contact has just set the velocity of the
\* entity, which was another, to the added velocity of the contact
C9_Witness ==
    /\ last.op = "AvatarContact"
    /\ entities[last.id].known
    /\ LET before == last.before[last.id].velocity
           relative == VSub(last.contact._addedVelocity, before)
       IN  /\ LengthLess(relative, HALTING_ENTITY_SPEED)
           /\ IsNeg(Dot(relative, last.contact._penetration))
           /\ before # last.contact._addedVelocity
    /\ entities[last.id].velocity = last.contact._addedVelocity

----------------------------------------------------------------------------
(* Properties: the capacity of the contact lists *)

----------------------------------------------------------------------------
(* Properties: applyHardCollision *)

\* the relative velocity (added velocity minus entity velocity) the latest
\* call of applyHardCollision found, and the one it left
LastRelativeBefore == VSub(last.contact._addedVelocity, last.before[last.id].velocity)

LastRelativeAfter == VSub(last.contact._addedVelocity, entities[last.id].velocity)

\* the latest call took the branch of the dynamic reflection
LastFastApproach ==
    /\ last.op = "applyHardCollision"
    /\ entities[last.id].known
    /\ IsNeg(Dot(LastRelativeBefore, last.contact._penetration))
    /\ ~LengthLess(LastRelativeBefore, HALTING_ENTITY_SPEED)

\* C11: after a call of applyHardCollision that took the fast-approach branch
\* with elasticity 1 and damping 0, the component of the relative velocity
\* (added velocity minus entity velocity) along the penetration is the
\* negative of what it was, and the entity's velocity across the penetration
\* is what it was.
C11_ElasticRoundTrip ==
    ( /\ LastFastApproach
      /\ last.contact._elasticity = Whole(1)
      /\ last.contact._damping = Zero )
    => LET p == last.contact._penetration
           was == last.before[last.id].velocity
           now == entities[last.id].velocity
       IN  /\ Along(LastRelativeAfter, p) = VScale(Neg(Whole(1)), Along(LastRelativeBefore, p))
           /\ VSub(now, Along(now, p)) = VSub(was, Along(was, p))

\* C11 witness: such a call was made for a contact met at a slant: the
\* relative velocity had a part along the penetration, now reversed, and a
\* part across it
C11_Witness ==
    /\ LastFastApproach
    /\ last.contact._elasticity = Whole(1)
    /\ last.contact._damping = Zero
    /\ Along(LastRelativeBefore, last.contact._penetration) # LastRelativeBefore
    /\ entities[last.id].velocity # last.before[last.id].velocity
    /\ IsPos(Dot(LastRelativeAfter, last.contact._penetration))

\* C19: a call of applyHardCollision for a known entity queues one edit; when
\* the relative velocity (added velocity minus entity velocity) has a projection
\* onto the penetration that is zero or positive, the edit carries the
\* entity's position and velocity as they were (in metres); when the
\* projection is negative, it carries the position less the whole penetration.
C19_PassThrough ==
    (last.op = "applyHardCollision" /\ entities[last.id].known)
    => LET was == last.before[last.id]
       IN  /\ Len(edits) = ticks
           /\ edits[Len(edits)].id = last.id
           /\ IF IsNeg(Dot(LastRelativeBefore, last.contact._penetration))
              THEN edits[Len(edits)].position
                      = VScale(TreeScale, VSub(was.position, last.contact._penetration))
              ELSE /\ edits[Len(edits)].position = VScale(TreeScale, was.position)
                   /\ edits[Len(edits)].velocity = VScale(TreeScale, was.velocity)
                   /\ entities = last.before

\* C19 witness: the entity, moved by an earlier call, has met a contact across
\* its way (projection zero, relative velocity not zero) and the call has
\* passed its position and velocity on as they were
C19_Witness ==
    /\ last.op = "applyHardCollision"
    /\ entities[last.id].known
    /\ ticks = 2
    /\ LastRelativeBefore # VZero
    /\ Dot(LastRelativeBefore, last.contact._penetration) = Zero
    /\ entities[last.id].position # VZero
    /\ edits[2].position = VScale(TreeScale, last.before[last.id].position)
    /\ edits[2].velocity = VScale(TreeScale, last.before[last.id].velocity)

----------------------------------------------------------------------------
(* Properties: entities left alone *)

\* C12: an entity whose identifier is not known is never changed by a step
\* of the collision system, and after no step is there an edit message for
\* it or a notification that names it, be it scanned as entity A, found as
\* counterpart B or in contact with an avatar.
C12_UnknownNeverTouched ==
    [][ \A e \in DOMAIN entities :
          ~entities[e].known
          => /\ entities'[e] = entities[e]
             /\ \A k \in 1..Len(edits') : edits'[k].id # e
             /\ \A k \in 1..Len(emitted') :
                   emitted'[k].idA # e /\ emitted'[k].idB # e ]_vars

\* C12 witness: the avatar scan has just passed a contact of an entity with an
\* unknown identifier, approaching the avatar, to applyHardCollision
C12_Witness ==
    /\ last.op = "AvatarContact"
    /\ ~entities[last.id].known
    /\ IsNeg(Dot(VSub(last.contact._addedVelocity, last.before[last.id].velocity),
                 last.contact._penetration))
    /\ entities = last.before

----------------------------------------------------------------------------
(* Properties: notifications *)

\* the midpoint of two positions in tree units, in metres
MidpointInMetres(a, b) == VScale(Mul(Frac(1, 2), TreeScale), VAdd(a, b))

\* C13: a pass of the entity-pair loop that resolves its pair (it updates a
\* side and queues its edit) appends exactly one notification, which names A
\* and B, carries the penetration of the contact as found and, as contact
\* point, the midpoint of the two positions as the pass left them; it is
\* there when the pass ends, before the next contact. A pass that resolves
\* nothing appends none, and no other step appends one: not a pass of the
\* avatar scan, whatever applyHardCollision did.
C13_OneNotificationPerResolvedPair ==
    [][ IF IsEntityContact /\ (entities' # entities \/ edits' # edits)
        THEN LET B == collisions[i + 1]._extraData
             IN  /\ B # NULL
                 /\ emitted' = Append(emitted,
                        [idA |-> entity, idB |-> B,
                         penetration |-> collisions[i + 1]._penetration,
                         contactPoint |-> MidpointInMetres(entities'[entity].position,
                                                           entities'[B].position)])
        ELSE emitted' = emitted \/ (pc = "idle" /\ emitted' = <<>>) ]_vars

\* C13 witness: a pair was resolved by moving one side only, and the one
\* notification of the tick has the midpoint of the positions after the move,
\* which is not the midpoint of the positions before
C13_Witness ==
    /\ last.op = "EntityContact"
    /\ LastB # NULL
    /\ Len(emitted) = 1
    /\ emitted[1].contactPoint = MidpointInMetres(entities[last.id].position,
                                                  entities[LastB].position)
    /\ emitted[1].contactPoint # MidpointInMetres(last.before[last.id].position,
                                                  last.before[LastB].position)

\* C13, the avatar scan: a hard collision with an avatar has just moved the
\* entity and queued its edit, and there is no notification
C13_AvatarWitness ==
    /\ last.op = "AvatarContact"
    /\ entities # last.before
    /\ edits # <<>>
    /\ emitted = <<>>


\* C14: an entity that does not move on collision is never changed by a step
\* and gets no edit message, as entity A, as counterpart B or near an avatar;
\* and the avatar scan goes to the avatars only for an entity that moves on
\* collision and does not ignore collisions: for any other it asks no avatar
\* for contacts and leaves the member list alone.
C14_ImmovableNeverPerturbed ==
    [][ /\ \A e \in DOMAIN entities :
              ~entities[e].collisionsWillMove
              => /\ entities'[e] = entities[e]
                 /\ \A k \in 1..Len(edits') : edits'[k].id # e
        /\ pc' \in {"avatars", "contacts"}
              => /\ entities[entity'].collisionsWillMove
                 /\ ~entities[entity'].ignoreForCollisions
        /\ ( /\ pc = "entities" /\ pc' # "entities"
             /\ (~entities[entity].collisionsWillMove
                    \/ entities[entity].ignoreForCollisions) )
              => pc' = "foreach" /\ UNCHANGED <<_collisions, avatars, numCollisions>>
      ]_vars

\* C14 witness: an entity that does not move on collision was scanned as A,
\* its pair was resolved by moving B alone, and its avatar scan has returned
\* at once although avatars are near
C14_Witness ==
    /\ last.op = "BeginAvatars"
    /\ pc = "foreach"
    /\ ~entities[last.id].collisionsWillMove
    /\ ~entities[last.id].ignoreForCollisions
    /\ Len(emitted) = 1 /\ emitted[1].idA = last.id
    /\ Len(edits) = 1 /\ edits[1].id = emitted[1].idB
    /\ \E a \in DOMAIN avatarHash : ~TooFar(World, last.id, avatarHash[a])

----------------------------------------------------------------------------
(* Properties: the member list of the avatar scan *)

\* C15 as stated: the contacts of each avatar go into a fresh buffer, so a
\* contact that a pass of the contact loop passes to applyHardCollision
\* (projection not positive) is a contact the avatar at hand has just
\* returned, as it returned it: not one that was in the list before, scaled
\* and perhaps passed already for an avatar visited earlier.
C15_FreshBufferPerAvatar ==
    [][ (IsAvatarContact /\ ~IsPos(PassProjection))
        => _collisions[i + 1] \in scene.spheres ]_vars


\* C16 as stated: the world scale is applied exactly once at each boundary:
\* the contact a pass hands to applyHardCollision has the added velocity and
\* the penetration of a contact an avatar returned, each divided by TREE_SCALE
\* once, and for a known entity the edit queued carries the entity's new
\* position and velocity multiplied by TREE_SCALE once.
C16_ScaledExactlyOnce ==
    [][ (IsAvatarContact /\ ~IsPos(PassProjection))
        => /\ \E c \in scene.spheres :
                 /\ _collisions'[i + 1]._addedVelocity = VDiv(c._addedVelocity, TreeScale)
                 /\ _collisions'[i + 1]._penetration = VDiv(c._penetration, TreeScale)
           /\ entities[entity].known
                 => /\ Len(edits') = Len(edits) + 1
                    /\ edits'[Len(edits')].position
                          = VScale(TreeScale, entities'[entity].position)
                    /\ edits'[Len(edits')].velocity
                          = VScale(TreeScale, entities'[entity].velocity) ]_vars

----------------------------------------------------------------------------
(* Properties: the order of the entity-pair scan *)

\* the contact the scan is about to handle meets every condition of line 127
\* and has a known counterpart
NextContactQualifies ==
    LET c == collisions[i + 1]
        B == c._extraData
    IN  /\ B # NULL
        /\ entities[B].known
        /\ ~DeeperThanA(c._penetration)
        /\ IsPos(Dot(PairVelocity(B), c._penetration))
        /\ (entities[entity].collisionsWillMove \/ entities[B].collisionsWillMove)

\* C17: while contacts are left in the list the scan does nothing but handle
\* the next one and step to the one after it: a contact without counterpart
\* reference, with a counterpart of unknown identifier, or failing the closing,
\* enclosure or movable test changes nothing; a contact that qualifies is
\* resolved wherever it stands in the list; and the scan leaves the loop only
\* when every contact has been handled.
C17_SkipAndContinue ==
    [][ /\ (pc = "entities" /\ i < Len(collisions))
           => /\ i' = i + 1
              /\ pc' = "entities"
              /\ UNCHANGED <<collisions, entity>>
              /\ IF NextContactQualifies
                 THEN Len(emitted') = Len(emitted) + 1 /\ edits' # edits
                 ELSE UNCHANGED <<entities, movingEntities, edits, emitted>>
        /\ (pc = "entities" /\ pc' # "entities") => i = Len(collisions) ]_vars

\* C17 witness: the first contact of the list had no counterpart reference
\* and was skipped, and the second has just been resolved
C17_Witness ==
    /\ last.op = "EntityContact"
    /\ pc = "entities"
    /\ i = 2
    /\ collisions[1]._extraData = NULL
    /\ collisions[2]._extraData # NULL
    /\ Len(emitted) = 1
    /\ entities # last.before


\* the ratio by which a side of the pair at hand takes the axial velocity:
\* twice the other side's share of the mass, or 2 when the other side does
\* not move on collision
RatioOf(side, other) ==
    IF entities[other].collisionsWillMove
    THEN Div(Mul(Whole(2), entities[other].mass),
             Add(entities[side].mass, entities[other].mass))
    ELSE Whole(2)

\* C18: the contacts of one scan are handled one by one in the order of the
\* list, each once, and each pass works on the positions and velocities as
\* they stand when it begins, that is as the earlier passes left them: the
\* closing test, the axial velocity and the new positions and velocities of
\* a resolved pair are those computed from the current values.
C18_SequentialApplication ==
    [][ (pc = "entities" /\ i < Len(collisions))
        => /\ i' = i + 1
           /\ last'.contact = collisions[i + 1]
           /\ collisions' = collisions
           /\ LET A == entity
                  B == collisions[i + 1]._extraData
                  p == collisions[i + 1]._penetration
                  axial == Along(PairVelocity(B), p)
                  half  == VScale(Frac(1, 2), VDiv(p, TreeScale))
              IN  IF NextContactQualifies
                  THEN /\ Len(emitted') = Len(emitted) + 1
                       /\ entities[A].collisionsWillMove
                          => /\ entities'[A].velocity
                                   = VSub(entities[A].velocity,
                                          VScale(RatioOf(A, B), axial))
                             /\ entities'[A].position
                                   = VSub(entities[A].position, half)
                       /\ entities[B].collisionsWillMove
                          => /\ entities'[B].velocity
                                   = VAdd(entities[B].velocity,
                                          VScale(RatioOf(B, A), axial))
                             /\ entities'[B].position
                                   = VAdd(entities[B].position, half)
                  ELSE UNCHANGED <<entities, edits, emitted>> ]_vars

\* C18 witness: the second contact of a scan has just been resolved, after
\* the first was: it did not qualify with the velocities the scan began with
\* and does with those the first resolution left
C18_Witness ==
    /\ last.op = "EntityContact"
    /\ i = 2
    /\ Len(emitted) = 2
    /\ emitted[1].idB = emitted[2].idB
    /\ emitted[1].penetration = VScale(Neg(Whole(1)), emitted[2].penetration)
    /\ entities # last.before


\* the sides of the one pair resolved so far in the tick that move on collision
MovedSides ==
    { e \in {emitted[1].idA, emitted[1].idB} : entities[e].collisionsWillMove }

\* C20: a pass that resolves its pair leaves the relative velocity (A minus
\* B) with a projection onto the penetration that is the negative of what it
\* was, so the pair is separating afterwards; and when B is scanned later in
\* the tick and meets A with the opposite penetration, nothing else having
\* been resolved in between, the pass resolves nothing.
C20_ResolutionNegatesClosing ==
    [][ /\ (IsEntityContact /\ Len(emitted') = Len(emitted) + 1)
           => LET B == collisions[i + 1]._extraData
                  p == collisions[i + 1]._penetration
                  after == VSub(entities'[entity].velocity, entities'[B].velocity)
              IN  /\ Dot(after, p) = Neg(Dot(PairVelocity(B), p))
                  /\ IsNeg(Dot(after, p))
        /\ ( /\ IsEntityContact
             /\ Len(emitted) = 1
             /\ Len(edits) = Cardinality(MovedSides)
             /\ entity = emitted[1].idB
             /\ collisions[i + 1]._extraData = emitted[1].idA
             /\ collisions[i + 1]._penetration
                   = VScale(Neg(Whole(1)), emitted[1].penetration) )
           => UNCHANGED <<entities, movingEntities, edits, emitted>> ]_vars

\* C20 witness: a pair of unequal masses, both moving on collision, was
\* resolved in A's scan, and B's scan has just met A with the opposite
\* penetration and left the pair alone
C20_Witness ==
    /\ last.op = "EntityContact"
    /\ Len(emitted) = 1
    /\ Len(edits) = 2
    /\ last.id = emitted[1].idB
    /\ LastB = emitted[1].idA
    /\ last.contact._penetration = VScale(Neg(Whole(1)), emitted[1].penetration)
    /\ entities[last.id].mass # entities[LastB].mass
    /\ entities = last.before

====
